---------------------------- MODULE Spec2Model ----------------------------
(***************************************************************************)
(* A model of BioCantor's annotation collections                          *)
(* (inscripta/biocantor/gene/collections.py): GeneInterval,               *)
(* FeatureIntervalCollection, AnnotationCollection and the query engine   *)
(* of AnnotationCollection (query_by_position, query_by_guids,            *)
(* query_by_feature_identifier).                                          *)
(*                                                                         *)
(* Conventions.                                                            *)
(*  - An Optional[T] value is a set with at most one element: None is {}, *)
(*    a supplied value x is {x}.                                           *)
(*  - A location is a tuple: <<>> is EmptyLocation(), <<s, e>> is         *)
(*    SingleInterval(s, e, Strand.PLUS).                                   *)
(*  - A Python dict is a function; a Python list is a sequence.           *)
(*  - The parent / sequence data of a location is not modelled (parent is *)
(*    None everywhere), so ObjectValidation never fires.                   *)
(***************************************************************************)
EXTENDS Integers, Sequences, FiniteSets, TLC

VARIABLES
    coll,      \* the AnnotationCollection the caller holds (the receiver)
    pre,       \* the receiver as it was when the last call started
    call,      \* the last call: operation and arguments
    result,    \* the outcome of the last call: returned collection or error
    next_oid,  \* allocation counter: identity of the next constructed object
    failed     \* number of failed calls made on the receiver so far (capped)

vars == <<coll, pre, call, result, next_oid, failed>>

---------------------------------------------------------------------------
(* Bounds of the model.                                                    *)

\* Largest coordinate of an interval or a query in the exhaustive
\* position-query specification SpecPos.
MaxCoord == 5

\* Largest number of AnnotationCollection objects one behaviour constructs
\* (the root included).
MaxObjects == 3

\* Cap of the failed-call counter.
MaxFailed == 1

---------------------------------------------------------------------------
(* Python helpers.                                                         *)

None == {}

Some(x) == {x}

Val(o) == CHOOSE x \in o : TRUE

Min(S) == CHOOSE x \in S : \A y \in S : x <= y

Max(S) == CHOOSE x \in S : \A y \in S : x >= y

Range(s) == {s[i] : i \in DOMAIN s}

RECURSIVE Pow2(_)
Pow2(k) == IF k = 0 THEN 1 ELSE 2 * Pow2(k - 1)

\* x >> k on Python integers (floor division, also for negative x).
ShiftRight(x, k) == x \div Pow2(k)

\* A sequence listing the elements of a finite set (list(a_set)).
RECURSIVE SetToSeq(_)
SetToSeq(S) ==
    IF S = {} THEN <<>>
    ELSE LET x == CHOOSE y \in S : TRUE
         IN <<x>> \o SetToSeq(S \ {x})

\* sorted(seq, key=lambda x: x.start): a stable insertion sort.
RECURSIVE InsertByStart(_, _)
InsertByStart(sorted_prefix, x) ==
    IF sorted_prefix = <<>> THEN <<x>>
    ELSE LET n == Len(sorted_prefix)
             last == sorted_prefix[n]
         IN IF last.start <= x.start
            THEN Append(sorted_prefix, x)
            ELSE Append(InsertByStart(SubSeq(sorted_prefix, 1, n - 1), x), last)

RECURSIVE SortedByStart(_)
SortedByStart(s) ==
    IF s = <<>> THEN <<>>
    ELSE InsertByStart(SortedByStart(SubSeq(s, 1, Len(s) - 1)), s[Len(s)])

---------------------------------------------------------------------------
(* inscripta.biocantor.util.bins: the UCSC-style hierarchical binning     *)
(* scheme.  Bin level l (1 = finest) holds the ranges that fit in one     *)
(* block of 2^(BinFirstShift + (l-1)*BinNextShift) positions; the top bin *)
(* covers the whole coordinate space.                                      *)

BinFirstShift == 1

BinNextShift == 1

\* Offsets of the levels, finest first; the last level is the top bin.
BinOffsets == <<3, 1, 0>>

BinLevels == DOMAIN BinOffsets

BinTop == BinOffsets[Len(BinOffsets)]

BinShift(l) == BinFirstShift + (l - 1) * BinNextShift

BinStart(start, l) == ShiftRight(start, BinShift(l))

BinEnd(end, l) == ShiftRight(end - 1, BinShift(l))

\* bins(start, end, fmt="bed", one=True): the smallest bin holding the range.
bins_one(start, end) ==
    LET fits == {l \in BinLevels : BinStart(start, l) = BinEnd(end, l)}
    IN IF fits = {} THEN BinTop
       ELSE BinOffsets[Min(fits)] + BinStart(start, Min(fits))

\* bins(start, end, fmt="bed", one=False): every bin a range overlapping
\* [start, end) can have.
bins_all(start, end) ==
    {BinTop} \cup
    UNION {{BinOffsets[l] + i : i \in BinStart(start, l) .. BinEnd(end, l)} :
           l \in BinLevels}

---------------------------------------------------------------------------
(* Identifiers, qualifiers and digests (AbstractInterval and              *)
(* inscripta.biocantor.util.hashing).                                      *)

\* A caller-supplied UUID.
UUID(x) == <<x>>

\* digest_object(*args): a deterministic function of the argument tuple.
\* The digest is kept symbolic: the tagged tuple of its arguments.
digest_object(args) == <<"digest">> \o args

EmptyDict == [k \in {} |-> {}]

\* AbstractInterval._import_qualifiers_from_list: None or {} give {}; each
\* list of values becomes a set.
import_qualifiers_from_list(qualifiers) ==
    IF qualifiers = None THEN EmptyDict
    ELSE LET d == Val(qualifiers)
         IN [k \in DOMAIN d |-> Range(d[k])]

\* AbstractInterval._export_qualifiers_to_list: each set of values becomes
\* a list.
export_qualifiers_to_list(self) ==
    Some([k \in DOMAIN self.qualifiers |-> SetToSeq(self.qualifiers[k])])

\* AbstractInterval.identifiers: the values of the attributes named in the
\* class's _identifiers list that are not None.
identifiers(self) == UNION Range(self.identifier_fields)

\* AbstractInterval.start / AbstractInterval.end.
start_of(self) == self.location[1]

end_of(self) == self.location[2]

\* AbstractInterval.__len__ is not needed; a collection has a location
\* unless it was built without bounds and without children.
has_location(self) == self.location # <<>>

---------------------------------------------------------------------------
(* Sub-features.  A TranscriptInterval or FeatureInterval is a record of  *)
(* what the collections read from it: its exon blocks (each <<s, e>>,     *)
(* half-open), strand, coding blocks, primary flag, feature types, guid.  *)

Raised(error) == [status |-> "raised", error |-> error, value |-> <<>>]

Returned(value) == [status |-> "ok", error |-> "", value |-> <<value>>]

NoResult == [status |-> "none", error |-> "", value |-> <<>>]

\* Strand.PLUS and Strand.MINUS.
Strand == [PLUS |-> "PLUS", MINUS |-> "MINUS"]

\* Location.start / Location.end of a list of blocks.
blocks_start(blocks) == Min({blocks[i][1] : i \in DOMAIN blocks})

blocks_end(blocks) == Max({blocks[i][2] : i \in DOMAIN blocks})

\* len(location): the number of positions of the blocks.
RECURSIVE blocks_len(_)
blocks_len(blocks) ==
    IF blocks = <<>> THEN 0
    ELSE (Head(blocks)[2] - Head(blocks)[1]) + blocks_len(Tail(blocks))

\* TranscriptInterval: cds_blocks is <<>> for a non-coding transcript.
TranscriptInterval(blocks, strand, cds_blocks, is_primary_tx, guid) ==
    [kind |-> "TranscriptInterval",
     blocks |-> blocks,
     strand |-> strand,
     start |-> blocks_start(blocks),
     end |-> blocks_end(blocks),
     is_coding |-> cds_blocks # <<>>,
     cds_blocks |-> cds_blocks,
     is_primary_feature |-> is_primary_tx,
     feature_types |-> None,
     guid |-> guid]

\* FeatureInterval: never coding; feature_types is None or a set of names.
FeatureInterval(blocks, strand, feature_types, is_primary_feature, guid) ==
    [kind |-> "FeatureInterval",
     blocks |-> blocks,
     strand |-> strand,
     start |-> blocks_start(blocks),
     end |-> blocks_end(blocks),
     is_coding |-> FALSE,
     cds_blocks |-> <<>>,
     is_primary_feature |-> is_primary_feature,
     feature_types |-> feature_types,
     guid |-> guid]

\* AbstractInterval.__len__.
interval_len(interval) == blocks_len(interval.blocks)

\* "interval.cds_size if hasattr(interval, 'cds_size') else 0": only a
\* TranscriptInterval has cds_size, the length of its coding blocks.
cds_size(interval) ==
    IF interval.kind = "TranscriptInterval"
    THEN blocks_len(interval.cds_blocks)
    ELSE 0

\* Python truthiness of an interval object: it defines __len__.
truthy_interval(interval) == interval_len(interval) # 0

---------------------------------------------------------------------------
(* AbstractFeatureIntervalCollection._find_primary_feature.                *)

\* The loop over the flagged intervals from position i on; primary is the
\* position of the flagged interval found so far (None if none).
RECURSIVE given_primary(_, _, _)
given_primary(intervals, i, primary) ==
    IF i > Len(intervals) THEN [raised |-> FALSE, primary |-> primary]
    ELSE IF intervals[i].is_primary_feature
         THEN IF primary # None /\ truthy_interval(intervals[Val(primary)])
              THEN [raised |-> TRUE, primary |-> primary]
              ELSE given_primary(intervals, i + 1, Some(i))
         ELSE given_primary(intervals, i + 1, primary)

\* The sort key "lambda x: (-x[0], -x[1])" on [cds_size, len, i].
size_key_le(x, y) ==
    \/ -x[1] < -y[1]
    \/ (-x[1] = -y[1] /\ -x[2] <= -y[2])

\* sorted(..., key=...): a stable insertion sort.
RECURSIVE InsertBySize(_, _)
InsertBySize(sorted_prefix, x) ==
    IF sorted_prefix = <<>> THEN <<x>>
    ELSE LET n == Len(sorted_prefix)
             last == sorted_prefix[n]
         IN IF size_key_le(last, x)
            THEN Append(sorted_prefix, x)
            ELSE Append(InsertBySize(SubSeq(sorted_prefix, 1, n - 1), x), last)

RECURSIVE SortedBySize(_)
SortedBySize(s) ==
    IF s = <<>> THEN <<>>
    ELSE InsertBySize(SortedBySize(SubSeq(s, 1, Len(s) - 1)), s[Len(s)])

\* interval_sizes: [cds_size, len(interval), i] for each interval, sorted.
interval_sizes(intervals) ==
    SortedBySize([i \in DOMAIN intervals |->
                     <<cds_size(intervals[i]), interval_len(intervals[i]), i>>])

\* A variant of inferred_primary that takes the last interval of the list.
inferred_primary_last(intervals) == Len(intervals)

\* "primary_feature = intervals[interval_sizes[0][2]]": its position.
inferred_primary(intervals) == interval_sizes(intervals)[1][3]

\* _find_primary_feature on a non-empty list: the primary, or the error.
find_primary_feature(intervals) ==
    LET given == given_primary(intervals, 1, None)
    IN IF given.raised THEN Raised("ValidationException")
       ELSE IF given.primary # None
            THEN Returned(intervals[Val(given.primary)])
            ELSE Returned(intervals[inferred_primary(intervals)])

---------------------------------------------------------------------------
(* Feature groups: GeneInterval and FeatureIntervalCollection.             *)

\* A variant of group_children_guids that keeps the order of the list.
group_children_guids_listed(subfeatures) ==
    [i \in DOMAIN subfeatures |-> subfeatures[i].guid]

\* GeneInterval.children_guids / FeatureIntervalCollection.children_guids.
group_children_guids(subfeatures) == {x.guid : x \in Range(subfeatures)}

\* The bounds of a group: min start and max end of its sub-features.
group_start(subfeatures) == Min({x.start : x \in Range(subfeatures)})

\* A variant of group_end that takes the end of the last sub-feature.
group_end_of_last(subfeatures) == subfeatures[Len(subfeatures)].end

group_end(subfeatures) == Max({x.end : x \in Range(subfeatures)})

\* self.bin of a group.
group_bin(start, end) == bins_one(start, end)

\* GeneInterval.__init__: the gene, or the error raised.
GeneInterval_init(transcripts, guid, gene_id, gene_symbol, gene_type, locus_tag, qualifiers, sequence_name) ==
    IF transcripts = <<>> THEN Raised("InvalidAnnotationError")
    ELSE LET start == group_start(transcripts)
             end == group_end(transcripts)
             location == <<start, end>>
             quals == import_qualifiers_from_list(qualifiers)
             primary == find_primary_feature(transcripts)
         IN IF primary.status = "raised" THEN primary
            ELSE Returned(
              [kind |-> "GeneInterval",
               subfeatures |-> transcripts,
               identifier_fields |-> <<gene_id, gene_symbol, locus_tag>>,
               gene_type |-> gene_type,
               sequence_name |-> sequence_name,
               qualifiers |-> quals,
               feature_types |-> None,
               location |-> location,
               strand |-> Strand.PLUS,
               start |-> start,
               end |-> end,
               bin |-> group_bin(start, end),
               primary |-> primary.value[1],
               guid |-> IF guid = None
                        THEN digest_object(<<location, gene_id, gene_symbol,
                                             gene_type, locus_tag,
                                             sequence_name, quals,
                                             group_children_guids(transcripts)>>)
                        ELSE Val(guid)])

\* A gene built from transcripts and identifying fields alone (the list is
\* non-empty and flags no primary twice).
GeneInterval(transcripts, guid, gene_id, gene_symbol, locus_tag) ==
    GeneInterval_init(transcripts, guid, gene_id, gene_symbol, None, locus_tag, None, None).value[1]

\* "feature_types = [x.feature_types for x in feature_intervals if
\* x.feature_types]", then set.union, or None.
group_feature_types(feature_intervals) ==
    LET given == {x.feature_types : x \in Range(feature_intervals)} \ {None, {{}}}
    IN IF given = {} THEN None ELSE Some(UNION {Val(t) : t \in given})

\* FeatureIntervalCollection.__init__: the collection, or the error raised.
FeatureIntervalCollection_init(feature_intervals, feature_collection_name, feature_collection_id, locus_tag, sequence_name, guid, qualifiers) ==
    IF feature_intervals = <<>> THEN Raised("InvalidAnnotationError")
    ELSE LET start == group_start(feature_intervals)
             end == group_end(feature_intervals)
             location == <<start, end>>
             quals == import_qualifiers_from_list(qualifiers)
             feature_types == group_feature_types(feature_intervals)
             primary == find_primary_feature(feature_intervals)
         IN IF primary.status = "raised" THEN primary
            ELSE Returned(
              [kind |-> "FeatureIntervalCollection",
               subfeatures |-> feature_intervals,
               identifier_fields |-> <<feature_collection_id,
                                       feature_collection_name, locus_tag>>,
               gene_type |-> None,
               sequence_name |-> sequence_name,
               qualifiers |-> quals,
               feature_types |-> feature_types,
               location |-> location,
               strand |-> Strand.PLUS,
               start |-> start,
               end |-> end,
               bin |-> group_bin(start, end),
               primary |-> primary.value[1],
               guid |-> IF guid = None
                        THEN digest_object(<<location, feature_collection_name,
                                             feature_collection_id,
                                             feature_types, locus_tag,
                                             sequence_name, quals,
                                             group_children_guids(feature_intervals)>>)
                        ELSE Val(guid)])

\* A feature collection built from features and identifying fields alone.
FeatureIntervalCollection(feature_intervals, feature_collection_name, feature_collection_id, locus_tag, guid) ==
    FeatureIntervalCollection_init(feature_intervals, feature_collection_name, feature_collection_id, locus_tag, None, guid, None).value[1]

\* GeneInterval.is_coding / FeatureIntervalCollection.is_coding.
is_coding(self) ==
    IF self.kind = "FeatureIntervalCollection" THEN FALSE
    ELSE \E i \in DOMAIN self.subfeatures : self.subfeatures[i].is_coding

---------------------------------------------------------------------------
(* Merged features of a gene.  The interval arithmetic (Location.union,   *)
(* Location.blocks) is that of the location package: the union covers the *)
(* positions of its operands, and its blocks are the maximal runs.        *)

\* The positions a list of blocks covers.
positions(blocks) ==
    UNION {blocks[i][1] .. (blocks[i][2] - 1) : i \in DOMAIN blocks}

\* The maximal runs of a set of positions, in ascending order.
RECURSIVE runs(_)
runs(P) ==
    IF P = {} THEN <<>>
    ELSE LET s == Min(P)
             e == Min({x \in P : x + 1 \notin P})
         IN <<<<s, e + 1>>>> \o runs({x \in P : x > e})

\* "reduce(lambda x, y: x.union(y), intervals)" and merged.blocks: one
\* interval is returned as it is.
merged_blocks(intervals) ==
    IF Len(intervals) = 1 THEN intervals ELSE runs(positions(intervals))

\* The concatenation of a list of lists.
RECURSIVE flatten(_)
flatten(lists) ==
    IF lists = <<>> THEN <<>> ELSE Head(lists) \o flatten(Tail(lists))

\* A variant of produce_merged_feature that spans the gene's interval.
produce_merged_feature_hull(self, intervals) ==
    IF self.gene_type = None THEN Raised("AttributeError")
    ELSE Returned(
      [kind |-> "FeatureInterval",
       blocks |-> <<<<self.start, self.end>>>>,
       strand |-> self.strand,
       qualifiers |-> import_qualifiers_from_list(export_qualifiers_to_list(self)),
       sequence_name |-> self.sequence_name,
       feature_types |-> Some({Val(self.gene_type)}),
       feature_name |-> self.identifier_fields[2],
       feature_id |-> self.identifier_fields[1],
       locus_tag |-> self.identifier_fields[3],
       guid |-> self.guid])

\* GeneInterval._produce_merged_feature: "self.gene_type.name" fails on a
\* gene without gene_type.
produce_merged_feature(self, intervals) ==
    IF self.gene_type = None THEN Raised("AttributeError")
    ELSE Returned(
      [kind |-> "FeatureInterval",
       blocks |-> merged_blocks(intervals),
       strand |-> self.strand,
       qualifiers |-> import_qualifiers_from_list(export_qualifiers_to_list(self)),
       sequence_name |-> self.sequence_name,
       feature_types |-> Some({Val(self.gene_type)}),
       feature_name |-> self.identifier_fields[2],
       feature_id |-> self.identifier_fields[1],
       locus_tag |-> self.identifier_fields[3],
       guid |-> self.guid])

\* GeneInterval.get_merged_transcript.
get_merged_transcript(self) ==
    produce_merged_feature(self,
        flatten([i \in DOMAIN self.subfeatures |-> self.subfeatures[i].blocks]))

\* A variant of cds_intervals that takes the exon blocks of every transcript.
cds_intervals_all_exons(self) ==
    flatten([i \in DOMAIN self.subfeatures |-> self.subfeatures[i].blocks])

\* get_merged_cds: the coding blocks of the coding transcripts.
cds_intervals(self) ==
    flatten([i \in DOMAIN self.subfeatures |->
                IF self.subfeatures[i].is_coding
                THEN self.subfeatures[i].cds_blocks
                ELSE <<>>])

\* GeneInterval.get_merged_cds.
get_merged_cds(self) ==
    IF cds_intervals(self) = <<>> THEN Raised("NoncodingTranscriptError")
    ELSE produce_merged_feature(self, cds_intervals(self))

---------------------------------------------------------------------------
(* export_qualifiers of a feature group.                                   *)

\* BioCantorQualifiers: the keys under which the identifying fields are
\* exported.
BioCantorQualifiers ==
    [GENE_ID |-> "gene_id", GENE_NAME |-> "gene_name",
     GENE_TYPE |-> "gene_type", LOCUS_TAG |-> "locus_tag",
     FEATURE_COLLECTION_ID |-> "feature_collection_id",
     FEATURE_COLLECTION_NAME |-> "feature_collection_name",
     FEATURE_TYPE |-> "feature_type"]

\* The [key, val] list of export_qualifiers.
export_pairs(self) ==
    IF self.kind = "GeneInterval"
    THEN <<<<BioCantorQualifiers.GENE_ID, self.identifier_fields[1]>>,
           <<BioCantorQualifiers.GENE_NAME, self.identifier_fields[2]>>,
           <<BioCantorQualifiers.GENE_TYPE, self.gene_type>>,
           <<BioCantorQualifiers.LOCUS_TAG, self.identifier_fields[3]>>>>
    ELSE <<<<BioCantorQualifiers.FEATURE_COLLECTION_ID, self.identifier_fields[1]>>,
           <<BioCantorQualifiers.FEATURE_COLLECTION_NAME, self.identifier_fields[2]>>,
           <<BioCantorQualifiers.LOCUS_TAG, self.identifier_fields[3]>>>>

\* "if not val: continue": None and the empty string are skipped.
truthy_str(val) == val # None /\ Val(val) # ""

\* dict d with d[key] = value.
dict_set(d, key, value) ==
    [k \in DOMAIN d \cup {key} |-> IF k = key THEN value ELSE d[k]]

\* The loop of export_qualifiers.  qualifiers is self.qualifiers.copy(), a
\* shallow copy: under every key of the stored dict it holds the very set
\* object the stored dict holds, so "qualifiers[key].add(val)" on such a key
\* adds val to the stored set as well; a set created by "qualifiers[key] =
\* set()" is held by the copy alone.
RECURSIVE export_loop(_, _, _)
export_loop(pairs, qualifiers, stored) ==
    IF pairs = <<>> THEN [qualifiers |-> qualifiers, stored |-> stored]
    ELSE LET key == Head(pairs)[1]
             val == Head(pairs)[2]
         IN IF ~truthy_str(val)
            THEN export_loop(Tail(pairs), qualifiers, stored)
            ELSE IF key \notin DOMAIN qualifiers
            THEN export_loop(Tail(pairs),
                     dict_set(qualifiers, key, {Val(val)}), stored)
            ELSE export_loop(Tail(pairs),
                     dict_set(qualifiers, key, qualifiers[key] \cup {Val(val)}),
                     IF key \in DOMAIN stored
                     THEN dict_set(stored, key, stored[key] \cup {Val(val)})
                     ELSE stored)

\* GeneInterval.export_qualifiers / FeatureIntervalCollection
\* .export_qualifiers: the returned dict.
export_qualifiers(self) ==
    LET looped == export_loop(export_pairs(self), self.qualifiers,
                              self.qualifiers).qualifiers
    IN IF self.kind = "FeatureIntervalCollection"
          /\ self.feature_types # None /\ Val(self.feature_types) # {}
       THEN dict_set(looped, BioCantorQualifiers.FEATURE_TYPE,
                     Val(self.feature_types))
       ELSE looped

\* The group after export_qualifiers ran on it.
after_export_qualifiers(self) ==
    [self EXCEPT !.qualifiers =
        export_loop(export_pairs(self), self.qualifiers,
                    self.qualifiers).stored]

---------------------------------------------------------------------------
(* AnnotationCollection.                                                   *)

\* A variant of iter_children_of that chains the feature collections first.
iter_children_of_features_first(genes, feature_collections) ==
    SortedByStart(feature_collections \o genes)

\* itertools.chain(genes, feature_collections), sorted by start.
iter_children_of(genes, feature_collections) ==
    SortedByStart(genes \o feature_collections)

\* AnnotationCollection.iter_children.
iter_children(self) == iter_children_of(self.genes, self.feature_collections)

\* A variant of children_guids_of that adds the guids of the sub-features.
children_guids_of_all_depths(children) ==
    {x.guid : x \in Range(children)} \cup
    UNION {group_children_guids(x.subfeatures) : x \in Range(children)}

\* "{x.guid for x in self.iter_children()}".
children_guids_of(children) == {x.guid : x \in Range(children)}

\* AnnotationCollection.children_guids.
children_guids(self) == children_guids_of(iter_children(self))

\* AnnotationCollection.__init__: start and end are both None or both
\* supplied.
AnnotationCollection(feature_collections, genes, name, sequence_name, sequence_guid, qualifiers, start, end, completely_within, oid) ==
    LET children == iter_children_of(genes, feature_collections)
        is_empty == Len(feature_collections) + Len(genes) = 0
        infer == start = None /\ end = None /\ ~is_empty
        start1 == IF infer
                  THEN Some(Min({f.start : f \in Range(children)}))
                  ELSE start
        end1 == IF infer
                THEN Some(Max({f.end : f \in Range(children)}))
                ELSE end
        location == IF start1 = None /\ end1 = None THEN <<>>
                    ELSE <<Val(start1), Val(end1)>>
        quals == import_qualifiers_from_list(qualifiers)
    IN [feature_collections |-> feature_collections,
        genes |-> genes,
        name |-> name,
        sequence_name |-> sequence_name,
        sequence_guid |-> sequence_guid,
        qualifiers |-> quals,
        location |-> location,
        bin |-> IF location = <<>> THEN None
                ELSE Some(bins_one(location[1], location[2])),
        completely_within |-> completely_within,
        guid_map |-> EmptyDict,
        guid_cached |-> FALSE,
        guid |-> digest_object(<<location, name, sequence_name, quals,
                                 completely_within,
                                 children_guids_of(children)>>),
        oid |-> oid]

\* AnnotationCollection.__init__ for any start and end: with exactly one of
\* them supplied nothing is inferred and "assert start is not None and end
\* is not None" fails.
AnnotationCollection_init(feature_collections, genes, name, sequence_name, sequence_guid, qualifiers, start, end, completely_within, oid) ==
    IF (start = None) # (end = None) THEN Raised("AssertionError")
    ELSE Returned(AnnotationCollection(
             feature_collections, genes, name, sequence_name, sequence_guid,
             qualifiers, start, end, completely_within, oid))

\* Python truthiness of an Optional[int] / Optional[bool] argument.
truthy_int(x) == x # None /\ Val(x) # 0

truthy_bool(x) == x = Some(TRUE)

\* query_by_position: "if completely_within and start and end".
use_bins(completely_within, start, end) ==
    truthy_bool(completely_within) /\ truthy_int(start) /\ truthy_int(end)

\* A variant of query_bins that computes the bins of the 1-based range.
query_bins_one_based(completely_within, start, end) ==
    IF use_bins(completely_within, start, end)
    THEN Some(bins_all(Val(start) + 1, Val(end)))
    ELSE None

\* query_by_position: my_bins (None when the bins are not used).
query_bins(completely_within, start, end) ==
    IF use_bins(completely_within, start, end)
    THEN Some(bins_all(Val(start), Val(end)))
    ELSE None

\* query_by_position: "start = 0 if start is None else start".
norm_start(start) == IF start = None THEN 0 ELSE Val(start)

\* A variant of norm_end that takes the receiver's end whenever it has one.
norm_end_own(self, end) ==
    IF has_location(self) THEN end_of(self) ELSE Val(end)

\* query_by_position: "end = self.end if end is None else end".
norm_end(self, end) == IF end = None THEN end_of(self) ELSE Val(end)

\* A variant of invalid_query without the "start > end" branch.
invalid_query_negative_only(start, end) ==
    IF start < 0 THEN Some("InvalidQueryError") ELSE None

\* query_by_position: the range check; the error raised, or None.
invalid_query(start, end) ==
    IF start < 0 THEN Some("InvalidQueryError")
    ELSE IF start > end THEN Some("InvalidQueryError")
    ELSE None

\* A variant of skipped_noncoding that never skips.
skipped_noncoding_never(coding_only, child) == FALSE

\* query_by_position: "if coding_only and not gene_or_feature.is_coding".
skipped_noncoding(coding_only, child) == coding_only /\ ~is_coding(child)

\* query_by_position: "if my_bins and gene_or_feature.bin not in my_bins".
skipped_by_bins(my_bins, child) ==
    /\ my_bins # None
    /\ Val(my_bins) # {}
    /\ child.bin \notin Val(my_bins)

\* query_by_position: the exact comparison of the two branches.
\* A variant of kept_within that excludes a child ending at the range end.
kept_within_strict_end(child, start, end) ==
    child.start >= start /\ child.end < end

kept_within(child, start, end) == child.start >= start /\ child.end <= end

\* A variant of kept_overlap that counts touching ranges as overlapping.
kept_overlap_touching(child, start, end) ==
    child.start <= end /\ child.end >= start

kept_overlap(child, start, end) == child.start < end /\ child.end > start

\* A variant of kept_by_position that takes the overlap branch whatever the
\* flag.
kept_by_position_overlap(completely_within, child, start, end) ==
    kept_overlap(child, start, end)

\* query_by_position: the branch "completely_within and ..." or the branch
\* "not completely_within and ...".
kept_by_position(completely_within, child, start, end) ==
    IF truthy_bool(completely_within) THEN kept_within(child, start, end)
    ELSE kept_overlap(child, start, end)

\* query_by_position: does the loop keep this child?
position_keeps(child, my_bins, start, end, coding_only, completely_within) ==
    /\ ~skipped_noncoding(coding_only, child)
    /\ ~skipped_by_bins(my_bins, child)
    /\ kept_by_position(completely_within, child, start, end)

IsFeatureCollection(x) == x.kind = "FeatureIntervalCollection"

\* AnnotationCollection.query_by_position (end is supplied, or self has a
\* location).
query_by_position(self, start, end, coding_only, completely_within, oid) ==
    LET my_bins == query_bins(completely_within, start, end)
        start1 == norm_start(start)
        end1 == norm_end(self, end)
        error == invalid_query(start1, end1)
        Keep(x) == position_keeps(x, my_bins, start1, end1, coding_only,
                                  completely_within)
        KeepFeature(x) == IsFeatureCollection(x) /\ Keep(x)
        KeepGene(x) == ~IsFeatureCollection(x) /\ Keep(x)
        features_to_keep == SelectSeq(iter_children(self), KeepFeature)
        genes_to_keep == SelectSeq(iter_children(self), KeepGene)
    IN IF error # None THEN Raised(Val(error))
       ELSE Returned(AnnotationCollection(
                features_to_keep, genes_to_keep, self.name,
                self.sequence_name, self.sequence_guid,
                export_qualifiers_to_list(self), Some(start1), Some(end1),
                completely_within, oid))

\* A variant of query_by_position that empties the receiver's lists while
\* filtering.
after_query_by_position_in_place(self) ==
    [self EXCEPT !.genes = <<>>, !.feature_collections = <<>>]

\* query_by_position assigns no attribute of self.
after_query_by_position(self) == self

\* The dict comprehension {x.guid: x for x in self.iter_children()}: a
\* later child replaces an earlier one with the same guid.
guid_dict(children) ==
    [g \in {x.guid : x \in Range(children)} |->
        children[Max({i \in DOMAIN children : children[i].guid = g})]]

\* A variant of _build_guid_cache that does not set the flag.
build_guid_cache_no_flag(self) ==
    [self EXCEPT !.guid_map = guid_dict(iter_children(self))]

\* AnnotationCollection._build_guid_cache.
build_guid_cache(self) ==
    [self EXCEPT !.guid_map = guid_dict(iter_children(self)),
                 !.guid_cached = TRUE]

\* query_by_guids: "if self._guid_cached is False: self._build_guid_cache()".
after_query_by_guids(self) ==
    IF self.guid_cached = FALSE THEN build_guid_cache(self) ELSE self

\* query_by_guids: the loop "for i in ids", ids taken in the order the set
\* enumerates them.
RECURSIVE guid_lookup(_, _, _)
guid_lookup(guid_map, ids, kind) ==
    IF ids = <<>> THEN <<>>
    ELSE LET i == Head(ids)
             rest == guid_lookup(guid_map, Tail(ids), kind)
         IN IF i \in DOMAIN guid_map /\ guid_map[i].kind = kind
            THEN <<guid_map[i]>> \o rest
            ELSE rest

\* AnnotationCollection.query_by_guids on self after the cache step; ids is
\* set(ids) in its enumeration order.
query_by_guids(self, ids, oid) ==
    LET features_to_keep == guid_lookup(self.guid_map, ids, "FeatureIntervalCollection")
        genes_to_keep == guid_lookup(self.guid_map, ids, "GeneInterval")
    IN Returned(AnnotationCollection(
           features_to_keep, genes_to_keep, self.name, self.sequence_name,
           self.sequence_guid, export_qualifiers_to_list(self),
           Some(start_of(self)), Some(end_of(self)),
           self.completely_within, oid))

\* A variant of identifier_keeps with all() in place of any().
identifier_keeps_all(child, ids) == \A i \in identifiers(child) : i \in ids

\* query_by_feature_identifier: "any(i in ids for i in identifiers)".
identifier_keeps(child, ids) == \E i \in identifiers(child) : i \in ids

\* AnnotationCollection.query_by_feature_identifier.
query_by_feature_identifier(self, ids, oid) ==
    LET KeepFeature(x) == IsFeatureCollection(x) /\ identifier_keeps(x, ids)
        KeepGene(x) == ~IsFeatureCollection(x) /\ identifier_keeps(x, ids)
        features_to_keep == SelectSeq(iter_children(self), KeepFeature)
        genes_to_keep == SelectSeq(iter_children(self), KeepGene)
    IN Returned(AnnotationCollection(
           features_to_keep, genes_to_keep, self.name, self.sequence_name,
           self.sequence_guid, export_qualifiers_to_list(self),
           Some(start_of(self)), Some(end_of(self)),
           self.completely_within, oid))

\* query_by_feature_identifier assigns no attribute of self.
after_query_by_feature_identifier(self) == self

---------------------------------------------------------------------------
(* The inputs.                                                             *)

\* A single-block transcript on the forward strand whose coding region, if
\* any, is the whole block.
SubFeature(start, end, coding, guid) ==
    TranscriptInterval(<<<<start, end>>>>, Strand.PLUS,
                       IF coding THEN <<<<start, end>>>> ELSE <<>>,
                       FALSE, guid)

\* Name, sequence name, sequence guid and qualifiers of a root collection.
RootMetadata ==
    {[name |-> None, sequence_name |-> None, sequence_guid |-> None,
      qualifiers |-> None],
     [name |-> Some("annot"), sequence_name |-> Some("chr1"),
      sequence_guid |-> Some(UUID("s1")),
      qualifiers |-> Some([k \in {"note"} |-> <<"x", "y">>])]}

NoCall ==
    [op |-> "none", recv |-> "coll", start |-> None, end |-> None,
     coding_only |-> FALSE, completely_within |-> None, ids |-> {}]

\* The state after the caller constructed the root collection.
InitWith(root) ==
    /\ coll = root
    /\ pre = root
    /\ call = NoCall
    /\ result = NoResult
    /\ next_oid = 2
    /\ failed = 0

\* Roots of Spec: at most one gene and at most one feature collection.
\* The gene's guid is caller-supplied or derived; the feature collection's
\* guid may equal the gene's, and the two may share an identifier.
SpecGenes ==
    {GeneInterval(<<SubFeature(0, 2, TRUE, UUID("t1"))>>,
                  Some(UUID("g1")), Some("a"), None, None),
     GeneInterval(<<SubFeature(1, 2, FALSE, UUID("t1")),
                    SubFeature(2, 3, FALSE, UUID("t2"))>>,
                  None, None, Some("b"), None)}

SpecFeatureCollections ==
    {FeatureIntervalCollection(<<FeatureInterval(<<<<0, 1>>>>, Strand.PLUS, None, FALSE, UUID("f1"))>>,
                               None, Some("a"), None, Some(UUID("g1"))),
     FeatureIntervalCollection(<<FeatureInterval(<<<<2, 2>>>>, Strand.PLUS, None, FALSE, UUID("f1"))>>,
                               Some("c"), Some("b"), None, Some(UUID("g2")))}

SpecBounds == {<<None, None>>, <<Some(0), Some(2)>>}

\* A root either leaves metadata and bounds to the defaults or supplies both.
SpecRootOptions ==
    {o \in RootMetadata \X SpecBounds : (o[1].name = None) <=> (o[2][1] = None)}

SpecRoots ==
    {AnnotationCollection(fcs, genes, o[1].name, o[1].sequence_name,
                          o[1].sequence_guid, o[1].qualifiers,
                          o[2][1], o[2][2], None, 1) :
        fcs \in {<<>>} \cup {<<f>> : f \in SpecFeatureCollections},
        genes \in {<<>>} \cup {<<g>> : g \in SpecGenes},
        o \in SpecRootOptions}

Init == \E root \in SpecRoots : InitWith(root)

\* Arguments of the calls of Spec.
SpecStarts == {None, Some(-1), Some(1)}

SpecEnds == {None, Some(0), Some(2)}

SpecFlags == {Some(TRUE), Some(FALSE)}

SpecGuids == {UUID("g1"), UUID("g2")}

SpecIdentifiers == {"a", "b"}

\* The orders in which a set can be enumerated.
Enumerations(S) ==
    {s \in [1 .. Cardinality(S) -> S] : Range(s) = S}

---------------------------------------------------------------------------
(* The operations.  A call is made on the collection the caller holds     *)
(* (recv = "coll") or on the collection the previous call returned        *)
(* (recv = "result"), which then becomes the collection the caller holds. *)

CanCallOn(recv) == recv = "coll" \/ result.status = "ok"

Receiver(recv) == IF recv = "coll" THEN coll ELSE result.value[1]

FailedBefore(recv) == IF recv = "coll" THEN failed ELSE 0

Finish(recv, self, self_after, out, the_call) ==
    /\ out.status = "ok" => next_oid <= MaxObjects
    /\ pre' = self
    /\ coll' = self_after
    /\ call' = the_call
    /\ result' = out
    /\ next_oid' = IF out.status = "ok" THEN next_oid + 1 ELSE next_oid
    /\ failed' = IF out.status = "ok" THEN FailedBefore(recv)
                 ELSE IF FailedBefore(recv) < MaxFailed
                      THEN FailedBefore(recv) + 1
                      ELSE FailedBefore(recv)

\* obj.query_by_position(start, end, coding_only, completely_within)
QueryByPosition(recv, start, end, coding_only, completely_within) ==
    /\ CanCallOn(recv)
    /\ end = None => has_location(Receiver(recv))
    /\ LET self == Receiver(recv)
       IN Finish(recv, self, after_query_by_position(self),
                 query_by_position(self, start, end, coding_only,
                                   completely_within, next_oid),
                 [op |-> "query_by_position", recv |-> recv,
                  start |-> start, end |-> end, coding_only |-> coding_only,
                  completely_within |-> completely_within, ids |-> {}])

\* obj.query_by_guids(ids)
QueryByGuids(recv, ids, order) ==
    /\ CanCallOn(recv)
    /\ has_location(Receiver(recv))
    /\ LET self == Receiver(recv)
           self_after == after_query_by_guids(self)
       IN Finish(recv, self, self_after,
                 query_by_guids(self_after, order, next_oid),
                 [op |-> "query_by_guids", recv |-> recv,
                  start |-> None, end |-> None, coding_only |-> FALSE,
                  completely_within |-> None, ids |-> ids])

\* obj.query_by_feature_identifier(ids)
QueryByFeatureIdentifier(recv, ids) ==
    /\ CanCallOn(recv)
    /\ has_location(Receiver(recv))
    /\ LET self == Receiver(recv)
       IN Finish(recv, self, after_query_by_feature_identifier(self),
                 query_by_feature_identifier(self, ids, next_oid),
                 [op |-> "query_by_feature_identifier", recv |-> recv,
                  start |-> None, end |-> None, coding_only |-> FALSE,
                  completely_within |-> None, ids |-> ids])

Receivers == {"coll", "result"}

Next ==
    \/ \E recv \in Receivers, start \in SpecStarts, end \in SpecEnds,
          coding_only \in BOOLEAN, completely_within \in SpecFlags :
          QueryByPosition(recv, start, end, coding_only, completely_within)
    \/ \E recv \in Receivers, ids \in SUBSET SpecGuids :
          \E order \in Enumerations(ids) : QueryByGuids(recv, ids, order)
    \/ \E recv \in Receivers, ids \in SUBSET SpecIdentifiers :
          QueryByFeatureIdentifier(recv, ids)

Spec == Init /\ [][Next]_vars

---------------------------------------------------------------------------
(* SpecPos: query_by_position as a function of its inputs.  The root has  *)
(* one child with any interval in 0 .. MaxCoord (a gene with one or two   *)
(* transcripts, or a feature collection), with or without a second child, *)
(* and one call is made with any arguments.                                *)

PosCoords == 0 .. MaxCoord

PosIntervals == {i \in PosCoords \X PosCoords : i[1] <= i[2]}

PosGenes ==
    {GeneInterval(txs, Some(UUID("g1")), Some("a"), None, None) :
        txs \in UNION {{<<SubFeature(i[1], i[2], TRUE, UUID("t1"))>>,
                        <<SubFeature(i[1], i[2], FALSE, UUID("t1"))>>,
                        <<SubFeature(i[1], i[2], FALSE, UUID("t1")),
                          SubFeature(i[1], i[2], TRUE, UUID("t2"))>>} :
                       i \in PosIntervals}}

PosFeatureCollections ==
    {FeatureIntervalCollection(<<FeatureInterval(<<<<i[1], i[2]>>>>, Strand.PLUS, None, FALSE, UUID("f1"))>>,
                               None, Some("b"), None, Some(UUID("g2"))) :
        i \in PosIntervals}

PosCompanion ==
    FeatureIntervalCollection(<<FeatureInterval(<<<<1, 2>>>>, Strand.PLUS, None, FALSE, UUID("f2")),
                                FeatureInterval(<<<<2, 3>>>>, Strand.PLUS, None, FALSE, UUID("f3"))>>,
                              None, Some("c"), None, Some(UUID("g3")))

PosBounds ==
    {<<None, None>>} \cup {<<Some(0), Some(e)>> : e \in PosCoords}

PosRoots ==
    {AnnotationCollection(fcs \o companion, genes, None, Some("chr1"), None,
                          None, b[1], b[2], None, 1) :
        fcs \in {<<>>} \cup {<<f>> : f \in PosFeatureCollections},
        genes \in {<<>>} \cup {<<g>> : g \in PosGenes},
        companion \in {<<>>, <<PosCompanion>>},
        b \in PosBounds}

InitPos ==
    \E root \in PosRoots :
        /\ Len(root.genes) + Len(root.feature_collections) <= 2
        /\ Len(root.genes) = 0 \/ root.feature_collections \in {<<>>, <<PosCompanion>>}
        /\ InitWith(root)

PosStarts == {None} \cup {Some(x) : x \in -1 .. MaxCoord}

PosEnds == {None} \cup {Some(x) : x \in PosCoords}

PosFlags == {Some(TRUE), Some(FALSE)}

NextPos ==
    \E start \in PosStarts, end \in PosEnds, coding_only \in BOOLEAN,
       completely_within \in PosFlags :
        /\ call.op = "none"
        /\ QueryByPosition("coll", start, end, coding_only, completely_within)

SpecPos == InitPos /\ [][NextPos]_vars

---------------------------------------------------------------------------
(* SpecBuild: the construction of AnnotationCollections from any children *)
(* and any supplied or omitted bounds, and iter_children on the           *)
(* collection built last.                                                   *)

\* No object constructed yet.
NoObject == [kind |-> "none"]

IsObject(x) == x # NoObject

\* Genes of SpecBuild: with a supplied or a derived guid, each in two
\* versions that differ in the guid of the transcript only; and a gene that
\* starts before them.
BuildGene(guid, tx_guid) ==
    GeneInterval(<<SubFeature(1, 3, TRUE, UUID(tx_guid))>>, guid,
                 Some("a"), None, None)

BuildEarlyGene ==
    GeneInterval(<<SubFeature(0, 2, FALSE, UUID("t3"))>>, Some(UUID("g3")),
                 Some("c"), None, None)

BuildGeneLists ==
    {<<>>, <<BuildGene(Some(UUID("g1")), "t1")>>,
     <<BuildGene(Some(UUID("g1")), "t2")>>,
     <<BuildGene(None, "t1")>>, <<BuildGene(None, "t2")>>,
     <<BuildGene(Some(UUID("g1")), "t1"), BuildEarlyGene>>}

\* Feature collections of SpecBuild: one starts where the genes start.
BuildFeatureCollection(start, end, guid) ==
    FeatureIntervalCollection(
        <<FeatureInterval(<<<<start, end>>>>, Strand.MINUS, None, FALSE, UUID("f1"))>>,
        None, Some("b"), None, Some(UUID(guid)))

BuildFeatureCollectionLists ==
    {<<>>, <<BuildFeatureCollection(1, 2, "g4")>>,
     <<BuildFeatureCollection(1, 4, "g5"), BuildFeatureCollection(0, 1, "g6")>>}

\* Supplied or omitted start and end.
BuildStarts == {None, Some(0)}

BuildEnds == {None, Some(2)}

InitBuild ==
    /\ coll = NoObject
    /\ pre = NoObject
    /\ call = NoCall
    /\ result = NoResult
    /\ next_oid = 1
    /\ failed = 0

\* obj = AnnotationCollection(feature_collections, genes, start=, end=)
Construct(feature_collections, genes, start, end) ==
    /\ next_oid < MaxObjects
    /\ LET out == AnnotationCollection_init(
                      feature_collections, genes, None, Some("chr1"), None,
                      None, start, end, None, next_oid)
       IN /\ result' = out
          /\ coll' = IF out.status = "ok" THEN out.value[1] ELSE coll
    /\ pre' = coll
    /\ call' = [op |-> "AnnotationCollection",
                feature_collections |-> feature_collections,
                genes |-> genes, start |-> start, end |-> end]
    /\ next_oid' = next_oid + 1
    /\ failed' = failed

\* list(obj.iter_children()); prior is what the previous call returned when
\* that call was iter_children on the same object.
IterChildren ==
    /\ IsObject(coll)
    /\ call.op = "iter_children" => call.prior = None
    /\ result' = Returned(iter_children(coll))
    /\ call' = [op |-> "iter_children",
                prior |-> IF call.op = "iter_children"
                          THEN Some(result.value[1]) ELSE None]
    /\ pre' = coll
    /\ UNCHANGED <<coll, next_oid, failed>>

NextBuild ==
    \/ \E feature_collections \in BuildFeatureCollectionLists,
          genes \in BuildGeneLists, start \in BuildStarts, end \in BuildEnds :
          Construct(feature_collections, genes, start, end)
    \/ IterChildren

SpecBuild == InitBuild /\ [][NextBuild]_vars

---------------------------------------------------------------------------
(* SpecGroup: the construction of one GeneInterval or                      *)
(* FeatureIntervalCollection from any list of up to two sub-features, and  *)
(* get_merged_transcript, get_merged_cds and export_qualifiers on it.      *)

\* The transcripts of the tests, and transcripts that tie with them.
tx1 == TranscriptInterval(<<<<2, 18>>>>, Strand.PLUS, <<<<5, 9>>>>, FALSE, UUID("t1"))

tx2 == TranscriptInterval(<<<<2, 6>>, <<7, 10>>, <<12, 15>>>>, Strand.PLUS, <<<<4, 6>>, <<7, 10>>, <<12, 13>>>>, FALSE, UUID("t2"))

tx1_primary == [tx1 EXCEPT !.is_primary_feature = TRUE]

tx2_primary == [tx2 EXCEPT !.is_primary_feature = TRUE]

tx_noncoding == TranscriptInterval(<<<<2, 6>>, <<7, 10>>, <<12, 30>>>>, Strand.MINUS, <<>>, FALSE, UUID("t3"))

tx_noncoding_short == TranscriptInterval(<<<<2, 6>>>>, Strand.PLUS, <<>>, FALSE, UUID("t4"))

\* As long as tx_noncoding_short, elsewhere.
tx_noncoding_far == TranscriptInterval(<<<<20, 24>>>>, Strand.MINUS, <<>>, FALSE, UUID("t5"))

\* A coding region as long as that of tx1 in a shorter transcript.
tx_short_coding == TranscriptInterval(<<<<0, 5>>>>, Strand.PLUS, <<<<1, 5>>>>, FALSE, UUID("t6"))

\* A transcript of length zero, flagged primary.
tx_empty_primary == TranscriptInterval(<<<<3, 3>>>>, Strand.PLUS, <<>>, TRUE, UUID("t7"))

GroupTranscripts ==
    {tx1, tx2, tx1_primary, tx2_primary, tx_noncoding, tx_noncoding_short,
     tx_noncoding_far, tx_short_coding, tx_empty_primary}

feat1 == FeatureInterval(<<<<1, 3>>>>, Strand.PLUS, Some({"promoter"}), FALSE, UUID("f1"))

feat2 == FeatureInterval(<<<<0, 2>>, <<4, 6>>>>, Strand.MINUS, None, FALSE, UUID("f2"))

feat1_primary == [feat1 EXCEPT !.is_primary_feature = TRUE]

feat2_primary == [feat2 EXCEPT !.is_primary_feature = TRUE]

\* As long as feat1, elsewhere.
feat_far == FeatureInterval(<<<<5, 7>>>>, Strand.MINUS, Some({"enhancer"}), FALSE, UUID("f3"))

feat_empty_primary == FeatureInterval(<<<<3, 3>>>>, Strand.PLUS, None, TRUE, UUID("f4"))

GroupFeatures ==
    {feat1, feat2, feat1_primary, feat2_primary, feat_far, feat_empty_primary}

\* Lists of at most two elements of S.
ListsOf(S) == {<<>>} \cup {<<x>> : x \in S} \cup {<<x, y>> : x \in S, y \in S}

\* Identifying fields, qualifiers and sequence name of a gene: all omitted;
\* those of the tests; and stored qualifiers under the key of an
\* identifying field, with another value or with the same value.
GroupGeneFields ==
    {[gene_id |-> None, gene_symbol |-> None, gene_type |-> None,
      locus_tag |-> None, qualifiers |-> None, sequence_name |-> None],
     [gene_id |-> Some("gene1"), gene_symbol |-> None,
      gene_type |-> Some("protein_coding"), locus_tag |-> None,
      qualifiers |-> Some(EmptyDict), sequence_name |-> None],
     [gene_id |-> Some("gene1"), gene_symbol |-> Some("sym"),
      gene_type |-> Some("protein_coding"), locus_tag |-> Some("tag"),
      qualifiers |-> Some([k \in {"gene_id", "note"} |->
                              IF k = "gene_id" THEN <<"other">> ELSE <<"n", "m">>]),
      sequence_name |-> Some("chr1")],
     [gene_id |-> Some("gene1"), gene_symbol |-> None, gene_type |-> None,
      locus_tag |-> None,
      qualifiers |-> Some([k \in {"gene_id"} |-> <<"gene1">>]),
      sequence_name |-> None]}

GroupCollectionFields ==
    {[feature_collection_name |-> None, feature_collection_id |-> None,
      locus_tag |-> None, qualifiers |-> None, sequence_name |-> None],
     [feature_collection_name |-> Some("name"),
      feature_collection_id |-> Some("id1"), locus_tag |-> Some("tag"),
      qualifiers |-> Some([k \in {"locus_tag", "feature_type"} |->
                              IF k = "locus_tag" THEN <<"other">> ELSE <<"x">>]),
      sequence_name |-> Some("chr1")]}

GroupGuids == {None, Some(UUID("g1"))}

InitGroup ==
    /\ coll = NoObject
    /\ pre = NoObject
    /\ call = NoCall
    /\ result = NoResult
    /\ next_oid = 1
    /\ failed = 0

\* obj = GeneInterval(transcripts, guid=, gene_id=, ...)
NewGeneInterval(transcripts, guid, f) ==
    /\ call.op = "none"
    /\ LET out == GeneInterval_init(transcripts, guid, f.gene_id,
                      f.gene_symbol, f.gene_type, f.locus_tag, f.qualifiers,
                      f.sequence_name)
       IN /\ result' = out
          /\ coll' = IF out.status = "ok" THEN out.value[1] ELSE coll
    /\ pre' = coll
    /\ call' = [op |-> "GeneInterval", subfeatures |-> transcripts,
                guid |-> guid, fields |-> f]
    /\ UNCHANGED <<next_oid, failed>>

\* obj = FeatureIntervalCollection(feature_intervals, ...)
NewFeatureIntervalCollection(feature_intervals, guid, f) ==
    /\ call.op = "none"
    /\ LET out == FeatureIntervalCollection_init(feature_intervals,
                      f.feature_collection_name, f.feature_collection_id,
                      f.locus_tag, f.sequence_name, guid, f.qualifiers)
       IN /\ result' = out
          /\ coll' = IF out.status = "ok" THEN out.value[1] ELSE coll
    /\ pre' = coll
    /\ call' = [op |-> "FeatureIntervalCollection",
                subfeatures |-> feature_intervals, guid |-> guid,
                fields |-> f]
    /\ UNCHANGED <<next_oid, failed>>

\* obj.get_merged_transcript()
GetMergedTranscript ==
    /\ IsObject(coll) /\ coll.kind = "GeneInterval"
    /\ result' = get_merged_transcript(coll)
    /\ pre' = coll
    /\ call' = [op |-> "get_merged_transcript"]
    /\ UNCHANGED <<coll, next_oid, failed>>

\* obj.get_merged_cds()
GetMergedCds ==
    /\ IsObject(coll) /\ coll.kind = "GeneInterval"
    /\ result' = get_merged_cds(coll)
    /\ pre' = coll
    /\ call' = [op |-> "get_merged_cds"]
    /\ UNCHANGED <<coll, next_oid, failed>>

\* obj.export_qualifiers()
ExportQualifiers ==
    /\ IsObject(coll)
    /\ result' = Returned(export_qualifiers(coll))
    /\ coll' = after_export_qualifiers(coll)
    /\ pre' = coll
    /\ call' = [op |-> "export_qualifiers"]
    /\ UNCHANGED <<next_oid, failed>>

NextGroup ==
    \/ \E transcripts \in ListsOf(GroupTranscripts), guid \in GroupGuids,
          f \in GroupGeneFields : NewGeneInterval(transcripts, guid, f)
    \/ \E feature_intervals \in ListsOf(GroupFeatures), guid \in GroupGuids,
          f \in GroupCollectionFields :
          NewFeatureIntervalCollection(feature_intervals, guid, f)
    \/ GetMergedTranscript
    \/ GetMergedCds
    \/ ExportQualifiers

SpecGroup == InitGroup /\ [][NextGroup]_vars

---------------------------------------------------------------------------
(* to_gff.  A GFFRow is a record of the columns the collections fill in;   *)
(* the rows of a sub-feature are those of the transcript and feature       *)
(* packages: one row per sub-feature, under the identity of its group.     *)

\* An iterator that raised after it had yielded rows.
RaisedAfter(error, rows) == [status |-> "raised", error |-> error, value |-> <<rows>>]

\* BioCantorFeatureTypes.GENE / BioCantorFeatureTypes.FEATURE_COLLECTION.
BioCantorFeatureTypes == [GENE |-> "gene", FEATURE_COLLECTION |-> "feature_collection"]

\* GFFRow(sequence_name, source, type, start, end, score, strand, phase,
\* GFFAttributes(id, qualifiers, name, parent)).
GFFRow(sequence_name, type, start, end, strand, id, qualifiers, name, parent) ==
    [seqid |-> sequence_name, type |-> type, start |-> start, end |-> end,
     strand |-> strand, id |-> id, qualifiers |-> qualifiers, name |-> name,
     parent |-> parent]

\* tx.to_gff(gene_guid, qualifiers) / feature.to_gff(feat_group_id,
\* qualifiers).
sub_to_gff(sub, sequence_name, parent, qualifiers) ==
    <<GFFRow(sequence_name, sub.kind, sub.start + 1, sub.end, sub.strand,
             sub.guid, qualifiers, None, Some(parent))>>

\* The row of the group itself.
group_row(self) ==
    GFFRow(Val(self.sequence_name),
           IF self.kind = "GeneInterval" THEN BioCantorFeatureTypes.GENE
           ELSE BioCantorFeatureTypes.FEATURE_COLLECTION,
           self.start + 1, self.end, self.strand, self.guid,
           export_qualifiers(self), self.identifier_fields[2], None)

\* list(GeneInterval.to_gff()) / list(FeatureIntervalCollection.to_gff()).
group_to_gff(self) ==
    IF ~truthy_str(self.sequence_name)
    THEN RaisedAfter("GFF3MissingSequenceNameError", <<>>)
    ELSE Returned(
           <<group_row(self)>> \o
           flatten([i \in DOMAIN self.subfeatures |->
                       sub_to_gff(self.subfeatures[i], Val(self.sequence_name),
                                  self.guid, export_qualifiers(self))]))

\* The group after to_gff ran on it: export_qualifiers ran unless the
\* sequence name was missing.
after_group_to_gff(self) ==
    IF ~truthy_str(self.sequence_name) THEN self
    ELSE after_export_qualifiers(self)

\* "for item in self.iter_children(): yield from item.to_gff()" from the
\* children left to iterate and the rows yielded so far.
RECURSIVE collection_rows(_, _)
collection_rows(children, rows) ==
    IF children = <<>> THEN Returned(rows)
    ELSE LET item == group_to_gff(Head(children))
         IN IF item.status = "raised"
            THEN RaisedAfter(item.error, rows \o item.value[1])
            ELSE collection_rows(Tail(children), rows \o item.value[1])

\* list(AnnotationCollection.to_gff()).
collection_to_gff(self) == collection_rows(iter_children(self), <<>>)

\* The children to_gff ran to the end on: those iterated before the first
\* one that raised.
RECURSIVE exported_children(_)
exported_children(children) ==
    IF children = <<>> THEN {}
    ELSE IF group_to_gff(Head(children)).status = "raised" THEN {}
    ELSE {Head(children)} \cup exported_children(Tail(children))

\* The collection after to_gff ran on it.
after_collection_to_gff(self) ==
    LET done == exported_children(iter_children(self))
        after(list) == [i \in DOMAIN list |->
                           IF list[i] \in done
                           THEN after_export_qualifiers(list[i])
                           ELSE list[i]]
    IN [self EXCEPT !.genes = after(self.genes),
                    !.feature_collections = after(self.feature_collections)]

\* An AnnotationCollection, as opposed to a feature group.
IsCollection(x) == "genes" \in DOMAIN x

to_gff(self) ==
    IF IsCollection(self) THEN collection_to_gff(self) ELSE group_to_gff(self)

after_to_gff(self) ==
    IF IsCollection(self) THEN after_collection_to_gff(self)
    ELSE after_group_to_gff(self)

---------------------------------------------------------------------------
(* SpecGff: to_gff on one GeneInterval, FeatureIntervalCollection or       *)
(* AnnotationCollection, built with or without a sequence name.            *)

\* sequence_name: omitted, empty, or given.
GffNames == {None, Some(""), Some("chr1")}

\* A gene with stored qualifiers under the key of its gene_id.
GffGene(transcripts, guid, sequence_name) ==
    GeneInterval_init(transcripts, Some(UUID(guid)), Some("gene1"), Some("sym"),
        Some("protein_coding"), None,
        Some([k \in {"gene_id"} |-> <<"other">>]), sequence_name).value[1]

GffFeatureCollection(feature_intervals, guid, sequence_name) ==
    FeatureIntervalCollection_init(feature_intervals, Some("name"), None, None,
        sequence_name, Some(UUID(guid)), None).value[1]

GffGenes ==
    {GffGene(<<tx1, tx2>>, "g1", n) : n \in GffNames} \cup
    {GffGene(<<tx_short_coding>>, "g2", n) : n \in GffNames}

GffFeatureCollections ==
    {GffFeatureCollection(<<feat1, feat2>>, "g3", n) : n \in GffNames}

\* The children lists of a collection: up to two genes and one feature
\* collection.
GffGeneLists == ListsOf(GffGenes)

GffFeatureCollectionLists == {<<>>} \cup {<<x>> : x \in GffFeatureCollections}

InitGff ==
    /\ coll = NoObject
    /\ pre = NoObject
    /\ call = NoCall
    /\ result = NoResult
    /\ next_oid = 1
    /\ failed = 0

\* obj = GeneInterval(...) or obj = FeatureIntervalCollection(...)
GffNewGroup(group) ==
    /\ coll = NoObject
    /\ coll' = group
    /\ result' = Returned(group)
    /\ pre' = coll
    /\ call' = [op |-> group.kind]
    /\ UNCHANGED <<next_oid, failed>>

\* obj = AnnotationCollection(feature_collections, genes, sequence_name=)
GffNewCollection(feature_collections, genes, sequence_name) ==
    /\ coll = NoObject
    /\ LET out == AnnotationCollection_init(feature_collections, genes, None,
                      sequence_name, None, None, None, None, None, next_oid)
       IN /\ result' = out
          /\ coll' = out.value[1]
    /\ pre' = coll
    /\ call' = [op |-> "AnnotationCollection"]
    /\ next_oid' = next_oid + 1
    /\ failed' = failed

\* list(obj.to_gff())
ToGff ==
    /\ IsObject(coll)
    /\ result' = to_gff(coll)
    /\ coll' = after_to_gff(coll)
    /\ pre' = coll
    /\ call' = [op |-> "to_gff"]
    /\ UNCHANGED <<next_oid, failed>>

NextGff ==
    \/ \E group \in GffGenes \cup GffFeatureCollections : GffNewGroup(group)
    \/ \E feature_collections \in GffFeatureCollectionLists,
          genes \in GffGeneLists, sequence_name \in GffNames :
          GffNewCollection(feature_collections, genes, sequence_name)
    \/ ToGff

SpecGff == InitGff /\ [][NextGff]_vars

---------------------------------------------------------------------------
(* SpecThreads: concurrent query_by_guids calls on one collection.  Each   *)
(* thread runs the method one access to the shared object at a time: it    *)
(* reads _guid_cached; if that was False it assigns the built dict to      *)
(* _guid_map and then sets _guid_cached; it reads _guid_map once for every *)
(* id of the loop; it constructs the collection it returns.  In            *)
(* SpecThreads call and result are functions of the thread.                *)

\* The number of threads.
MaxThreads == 2

Threads == 1 .. MaxThreads

\* A variant of build_steps that sets the flag before it assigns the dict.
build_steps_flag_first == <<"set_flag", "assign_map">>

\* The statements of _build_guid_cache, in order.
build_steps == <<"assign_map", "set_flag">>

\* The statement that follows statement pc of _build_guid_cache; the loop
\* of query_by_guids follows the last.
after_build_step(pc) ==
    LET k == CHOOSE i \in DOMAIN build_steps : build_steps[i] = pc
    IN IF k < Len(build_steps) THEN build_steps[k + 1] ELSE "lookup"

\* "self._guid_map.get(i)" and the two isinstance tests of the loop body:
\* the lists with what the id maps to appended.
guid_get(guid_map, i, kept) ==
    IF i \notin DOMAIN guid_map THEN kept
    ELSE IF guid_map[i].kind = "FeatureIntervalCollection"
    THEN [kept EXCEPT !.features_to_keep = Append(@, guid_map[i])]
    ELSE [kept EXCEPT !.genes_to_keep = Append(@, guid_map[i])]

\* A thread that has not called yet.
ThreadIdle ==
    [pc |-> "idle", order |-> <<>>, cached |-> None, i |-> 1,
     kept |-> [features_to_keep |-> <<>>, genes_to_keep |-> <<>>]]

\* The collections the threads share: two children with distinct guids, two
\* children with one guid, and a single child.
ThreadRoots ==
    {AnnotationCollection(fcs, genes, None, Some("chr1"), None, None,
                          None, None, None, 1) :
        fcs \in {<<>>} \cup {<<f>> : f \in SpecFeatureCollections},
        genes \in {<<g>> : g \in SpecGenes}}

InitThreads ==
    /\ coll \in ThreadRoots
    /\ pre = coll
    /\ call = [t \in Threads |-> ThreadIdle]
    /\ result = [t \in Threads |-> NoResult]
    /\ next_oid = 2
    /\ failed = 0

\* Thread t calls query_by_guids(ids) and evaluates "self._guid_cached is
\* False"; order is the order in which set(ids) will be enumerated.
ReadCached(t, order) ==
    /\ call[t].pc = "idle"
    /\ call' = [call EXCEPT ![t].pc = IF coll.guid_cached = FALSE
                                      THEN build_steps[1] ELSE "lookup",
                            ![t].cached = Some(coll.guid_cached),
                            ![t].order = order]
    /\ UNCHANGED <<coll, pre, result, next_oid, failed>>

\* "self._guid_map = {x.guid: x for x in self.iter_children()}"
AssignMap(t) ==
    /\ call[t].pc = "assign_map"
    /\ coll' = [coll EXCEPT !.guid_map = guid_dict(iter_children(coll))]
    /\ call' = [call EXCEPT ![t].pc = after_build_step("assign_map")]
    /\ UNCHANGED <<pre, result, next_oid, failed>>

\* "self._guid_cached = True"
SetFlag(t) ==
    /\ call[t].pc = "set_flag"
    /\ coll' = [coll EXCEPT !.guid_cached = TRUE]
    /\ call' = [call EXCEPT ![t].pc = after_build_step("set_flag")]
    /\ UNCHANGED <<pre, result, next_oid, failed>>

\* One iteration of "for i in ids".
Lookup(t) ==
    /\ call[t].pc = "lookup"
    /\ call[t].i <= Len(call[t].order)
    /\ call' = [call EXCEPT
                   ![t].kept = guid_get(coll.guid_map, call[t].order[call[t].i], @),
                   ![t].i = @ + 1]
    /\ UNCHANGED <<coll, pre, result, next_oid, failed>>

\* "return AnnotationCollection(...)"
Return(t) ==
    /\ call[t].pc = "lookup"
    /\ call[t].i > Len(call[t].order)
    /\ result' = [result EXCEPT ![t] =
                     Returned(AnnotationCollection(
                         call[t].kept.features_to_keep,
                         call[t].kept.genes_to_keep, coll.name,
                         coll.sequence_name, coll.sequence_guid,
                         export_qualifiers_to_list(coll),
                         Some(start_of(coll)), Some(end_of(coll)),
                         coll.completely_within, next_oid))]
    /\ call' = [call EXCEPT ![t].pc = "done"]
    /\ next_oid' = next_oid + 1
    /\ UNCHANGED <<coll, pre, failed>>

NextThreads ==
    \/ \E t \in Threads, ids \in SUBSET SpecGuids :
          \E order \in Enumerations(ids) : ReadCached(t, order)
    \/ \E t \in Threads : AssignMap(t)
    \/ \E t \in Threads : SetFlag(t)
    \/ \E t \in Threads : Lookup(t)
    \/ \E t \in Threads : Return(t)

SpecThreads == InitThreads /\ [][NextThreads]_vars

---------------------------------------------------------------------------
(* Vocabulary of the properties.                                           *)

Called(op) == call.op = op

Ok == result.status = "ok"

Res == result.value[1]

DirectChildren(c) == Range(c.genes) \cup Range(c.feature_collections)

\* The query range after defaulting: start to 0, end to the receiver's end.
QueryStart == IF call.start = None THEN 0 ELSE Val(call.start)

QueryEnd == IF call.end = None THEN pre.location[2] ELSE Val(call.end)

Within == call.completely_within = Some(TRUE)

\* A feature collection is never coding; a gene is coding iff one of its
\* transcripts is.
Coding(c) ==
    /\ c.kind = "GeneInterval"
    /\ \E tx \in Range(c.subfeatures) : tx.is_coding

Contained(c) == c.start >= QueryStart /\ c.end <= QueryEnd

Overlapping(c) == c.start < QueryEnd /\ c.end > QueryStart

\* The children the position query is to return.
Matching ==
    {c \in DirectChildren(pre) :
        /\ call.coding_only => Coding(c)
        /\ IF Within THEN Contained(c) ELSE Overlapping(c)}

\* The returned lists hold genes and feature collections apart, each child
\* at most once.
WellSorted(c) ==
    /\ \A g \in Range(c.genes) : g.kind = "GeneInterval"
    /\ \A f \in Range(c.feature_collections) :
          f.kind = "FeatureIntervalCollection"
    /\ Len(c.genes) + Len(c.feature_collections) =
          Cardinality(DirectChildren(c))

---------------------------------------------------------------------------
(* The properties.                                                         *)

\* C1: query_by_position returns exactly the direct children that are
\* coding when coding_only is set and that are contained in the query range
\* (completely_within) or overlap it (otherwise), the range being the
\* arguments with start defaulted to 0 and end to the collection's end.
C1_PositionQueryFilters ==
    (Called("query_by_position") /\ Ok) =>
        /\ DirectChildren(Res) = Matching
        /\ WellSorted(Res)

\* A containment query with the bins in use keeps one of two children, and
\* a coding-only query drops a non-coding child that lies in the range.
C1_Witness ==
    /\ Called("query_by_position") /\ Ok
    /\ \/ /\ use_bins(call.completely_within, call.start, call.end)
          /\ Cardinality(DirectChildren(pre)) = 2
          /\ Cardinality(DirectChildren(Res)) = 1
       \/ /\ call.coding_only
          /\ \E c \in DirectChildren(pre) :
                ~Coding(c) /\ Overlapping(c) /\ ~Within /\ c \notin DirectChildren(Res)

\* C2: with completely_within set and start and end supplied, the bin
\* pre-filter drops no child that the exact containment check keeps: the
\* bin of every contained child is among the bins of the query range, and
\* the result is that of the containment check alone.
C2_BinsDropNoContainedChild ==
    (Called("query_by_position") /\ Ok /\ Within
        /\ call.start # None /\ call.end # None) =>
        /\ \A c \in DirectChildren(pre) :
              (Contained(c) /\ query_bins(call.completely_within, call.start, call.end) # None)
                 => c.bin \in Val(query_bins(call.completely_within, call.start, call.end))
        /\ DirectChildren(Res) = Matching

\* The bins are in use, one child is contained and kept, and another child
\* is outside the bins of the query.
C2_Witness ==
    /\ Called("query_by_position") /\ Ok
    /\ use_bins(call.completely_within, call.start, call.end)
    /\ \E c \in DirectChildren(Res) : c.start < c.end
    /\ \E c \in DirectChildren(pre) :
          c.bin \notin Val(query_bins(call.completely_within, call.start, call.end))

\* C3 as stated: in both modes a child whose end is the query start, or
\* whose start is the query end, is not in the result.
C3_TouchingChildNeverReturned ==
    (Called("query_by_position") /\ Ok) =>
        \A c \in DirectChildren(Res) :
            c.end # QueryStart /\ c.start # QueryEnd

\* C3 amended: such a child is never in the result of an overlap query, and
\* is in the result of a containment query only if it has zero length
\* (start = end), in which case it lies within the range.
C3_TouchingChildOnlyIfEmptyAndWithin ==
    (Called("query_by_position") /\ Ok) =>
        \A c \in DirectChildren(Res) :
            (c.end = QueryStart \/ c.start = QueryEnd) =>
                (Within /\ c.start = c.end)

\* A child of non-zero length ends where the query starts and is dropped.
C3_Witness ==
    /\ Called("query_by_position") /\ Ok
    /\ ~call.coding_only
    /\ \E c \in DirectChildren(pre) :
          /\ c.start < c.end
          /\ c.end = QueryStart
          /\ c \notin DirectChildren(Res)

\* C4: query_by_position fails, with InvalidQueryError, exactly when the
\* defaulted range has start < 0 or start > end; a failed call leaves the
\* collection as it was, and a valid query returns the matching children
\* however many calls failed on the collection before.
C4_InvalidQueryExactlyWhenRangeInvalid ==
    Called("query_by_position") =>
        /\ result.status = "raised" <=>
              (QueryStart < 0 \/ QueryStart > QueryEnd)
        /\ result.status = "raised" =>
              (result.error = "InvalidQueryError" /\ coll = pre)
        /\ Ok => (DirectChildren(Res) = Matching /\ coll = pre)

\* A valid query on a collection on which an earlier call failed returns
\* children.
C4_Witness ==
    /\ Called("query_by_position") /\ Ok
    /\ call.recv = "coll"
    /\ failed >= 1
    /\ DirectChildren(Res) # {}

\* C5 as stated: the query (0, the collection's end, completely_within) on
\* any collection returns all its direct children.
C5_RoundTripReturnsAllChildren ==
    (/\ Called("query_by_position") /\ Ok
     /\ Within /\ ~call.coding_only
     /\ has_location(pre)
     /\ call.start = Some(0)
     /\ call.end = Some(end_of(pre))) =>
        DirectChildren(Res) = DirectChildren(pre)

\* C5 amended: that query returns exactly the direct children that end at
\* or before the collection's end: all of them when the bounds were
\* inferred, or when no child extends past the supplied end.
C5_RoundTripReturnsChildrenWithinEnd ==
    (/\ Called("query_by_position") /\ Ok
     /\ Within /\ ~call.coding_only
     /\ has_location(pre)
     /\ call.start = Some(0)
     /\ call.end = Some(end_of(pre))) =>
        /\ DirectChildren(Res) =
              {c \in DirectChildren(pre) : c.end <= end_of(pre)}
        /\ (DirectChildren(pre) # {} /\
            end_of(pre) >= Max({c.end : c \in DirectChildren(pre)}))
              => DirectChildren(Res) = DirectChildren(pre)

\* The round-trip query on a collection with two children whose largest end
\* is the collection's end returns both.
C5_Witness ==
    /\ Called("query_by_position") /\ Ok
    /\ Within /\ ~call.coding_only
    /\ has_location(pre)
    /\ call.start = Some(0)
    /\ call.end = Some(end_of(pre))
    /\ Cardinality(DirectChildren(pre)) = 2
    /\ end_of(pre) = Max({c.end : c \in DirectChildren(pre)})
    /\ DirectChildren(Res) = DirectChildren(pre)

\* C6: the collection a position query returns has the defaulted query
\* range as its bounds, also when no child matches, the receiver's name,
\* sequence name, sequence guid and qualifiers, and the query's
\* completely_within argument as its flag.
C6_PositionResultCarriesRangeAndMetadata ==
    (Called("query_by_position") /\ Ok) =>
        /\ Res.location = <<QueryStart, QueryEnd>>
        /\ Matching = {} => (Res.genes = <<>> /\ Res.feature_collections = <<>>)
        /\ Res.name = pre.name
        /\ Res.sequence_name = pre.sequence_name
        /\ Res.sequence_guid = pre.sequence_guid
        /\ Res.qualifiers = pre.qualifiers
        /\ Res.completely_within = call.completely_within

\* The query (0, 0) on a collection with children and qualifiers returns a
\* collection without children and with bounds [0, 0).
C6_Witness ==
    /\ Called("query_by_position") /\ Ok
    /\ call.start = None /\ call.end = Some(0)
    /\ DirectChildren(pre) # {}
    /\ DOMAIN pre.qualifiers # {}
    /\ DirectChildren(Res) = {}
    /\ Res.location = <<0, 0>>

\* C7: query_by_guids returns exactly the direct children whose guid is in
\* ids, never raises, and the result has the receiver's bounds and
\* completely_within flag.
C7_GuidQueryReturnsEveryChildWithGuid ==
    Called("query_by_guids") =>
        /\ Ok
        /\ DirectChildren(Res) =
              {c \in DirectChildren(pre) : c.guid \in call.ids}
        /\ Res.location = pre.location
        /\ Res.completely_within = pre.completely_within

\* The children of c that query_by_guids finds: for each guid, the last
\* child in iteration order that carries it.
LastWithGuid(c, ids) ==
    LET children == iter_children(c)
    IN {children[i] : i \in {j \in DOMAIN children :
            /\ children[j].guid \in ids
            /\ \A k \in DOMAIN children :
                  children[k].guid = children[j].guid => k <= j}}

\* C8: the identifier cache of a collection starts unbuilt, also on a
\* collection a query returns; query_by_guids leaves it built; once built
\* it is never changed; the other queries do not build it; and
\* query_by_guids returns the same children whether or not the cache was
\* built when the call started.
C8_GuidCacheBuiltOnceByGuidQuery ==
    /\ call.op = "none" =>
          (~coll.guid_cached /\ coll.guid_map = EmptyDict)
    /\ Ok => (~Res.guid_cached /\ Res.guid_map = EmptyDict)
    /\ Called("query_by_guids") =>
          /\ coll.guid_cached
          /\ DOMAIN coll.guid_map = {c.guid : c \in DirectChildren(coll)}
          /\ Range(coll.guid_map) = LastWithGuid(coll, DOMAIN coll.guid_map)
    /\ (call.op # "none" /\ pre.guid_cached) =>
          (coll.guid_cached /\ coll.guid_map = pre.guid_map)
    /\ (Called("query_by_position") \/ Called("query_by_feature_identifier"))
          => (coll.guid_cached = pre.guid_cached /\ coll.guid_map = pre.guid_map)
    /\ (Called("query_by_guids") /\ Ok) =>
          DirectChildren(Res) = LastWithGuid(pre, call.ids)

\* query_by_guids is called on a collection whose cache is already built
\* and returns a child.
C8_Witness ==
    /\ Called("query_by_guids") /\ Ok
    /\ pre.guid_cached
    /\ DirectChildren(Res) # {}

C10_QueriesLeaveReceiverUnchanged ==
    call.op # "none" =>
        /\ coll.genes = pre.genes
        /\ coll.feature_collections = pre.feature_collections
        /\ coll.location = pre.location
        /\ coll.bin = pre.bin
        /\ coll.completely_within = pre.completely_within
        /\ coll.qualifiers = pre.qualifiers
        /\ coll.name = pre.name
        /\ coll.sequence_name = pre.sequence_name
        /\ coll.guid = pre.guid
        /\ coll.oid = pre.oid
        /\ Ok => Res.oid # coll.oid

\* A guid query builds the receiver's cache, and nothing else of it
\* changes, while the collection returned holds the same children.
C10_Witness ==
    /\ Called("query_by_guids") /\ Ok
    /\ coll # pre
    /\ DirectChildren(Res) = DirectChildren(coll)
    /\ DirectChildren(coll) # {}


\* The children handed to the constructor of the last call.
GivenChildren == Range(call.genes) \cup Range(call.feature_collections)

\* C11: for every combination of supplied or omitted start and end and every
\* list of children, the constructor gives a collection: without interval
\* and without bin when both bounds are omitted and there are no children;
\* with bounds min(child.start) .. max(child.end) when both are omitted and
\* children exist; with the supplied bounds otherwise.
C11_ConstructionGivesInferredOrSuppliedBounds ==
    Called("AnnotationCollection") =>
        /\ Ok
        /\ coll = Res
        /\ IF call.start = None /\ call.end = None
           THEN IF GivenChildren = {}
                THEN coll.location = <<>> /\ coll.bin = None
                ELSE coll.location =
                        <<Min({c.start : c \in GivenChildren}),
                          Max({c.end : c \in GivenChildren})>>
           ELSE /\ call.start # None => coll.location[1] = Val(call.start)
                /\ call.end # None => coll.location[2] = Val(call.end)

\* How often x occurs in a list.
Occurrences(seq, x) == Cardinality({i \in DOMAIN seq : seq[i] = x})

\* The list holds every gene and every feature collection of c as often as
\* the lists of c hold it, and nothing else.
YieldsEachChildOnce(seq, c) ==
    \A x \in DirectChildren(c) \cup Range(seq) :
        Occurrences(seq, x) =
            Occurrences(c.genes, x) + Occurrences(c.feature_collections, x)

AscendingByStart(seq) ==
    \A i, j \in DOMAIN seq : i < j => seq[i].start <= seq[j].start

\* Is there a pair of children with equal start, the first of kind a and the
\* second of kind b?
TieInOrder(seq, a, b) ==
    \E i, j \in DOMAIN seq :
        /\ i < j
        /\ seq[i].start = seq[j].start
        /\ seq[i].kind = a /\ seq[j].kind = b

\* C12 as stated: iter_children yields every child exactly once in ascending
\* order of start, genes after feature collections among children with
\* equal start, and every call yields the same sequence.
C12_IterChildrenGenesAfterFeatureCollections ==
    Called("iter_children") =>
        /\ YieldsEachChildOnce(Res, coll)
        /\ AscendingByStart(Res)
        /\ ~TieInOrder(Res, "GeneInterval", "FeatureIntervalCollection")
        /\ call.prior # None => Res = Val(call.prior)

\* C12 amended: among children with equal start, genes come before feature
\* collections (the order of the concatenation genes, feature collections).
C12_IterChildrenGenesBeforeFeatureCollections ==
    Called("iter_children") =>
        /\ YieldsEachChildOnce(Res, coll)
        /\ AscendingByStart(Res)
        /\ ~TieInOrder(Res, "FeatureIntervalCollection", "GeneInterval")
        /\ call.prior # None => Res = Val(call.prior)

\* A second call of iter_children on a collection in which a gene and a
\* feature collection start at the same coordinate, behind an earlier child.
C12_Witness ==
    /\ Called("iter_children")
    /\ call.prior # None
    /\ TieInOrder(Res, "GeneInterval", "FeatureIntervalCollection")
    /\ Len(Res) >= 3
    /\ Res # coll.genes \o coll.feature_collections

\* The last call constructed (or failed to construct) a feature group.
GroupCall == Called("GeneInterval") \/ Called("FeatureIntervalCollection")

\* The sub-features handed to the constructor.
Siblings == call.subfeatures

\* All blocks of a list of sub-features.
AllBlocks(list) == UNION {Range(x.blocks) : x \in Range(list)}

\* C13: the interval of a GeneInterval or FeatureIntervalCollection runs
\* from the smallest start to the largest end of its sub-features and is on
\* the forward strand, whatever the strands of the sub-features and whether
\* or not their blocks leave gaps.
C13_GroupIntervalIsForwardHull ==
    (GroupCall /\ Ok) =>
        /\ Res.start = Min({b[1] : b \in AllBlocks(Siblings)})
        /\ Res.end = Max({b[2] : b \in AllBlocks(Siblings)})
        /\ Res.location = <<Res.start, Res.end>>
        /\ Res.strand = Strand.PLUS

\* A group of two sub-features, one on the reverse strand, whose blocks
\* leave a gap and whose last sub-feature does not end the group.
C13_Witness ==
    /\ GroupCall /\ Ok
    /\ Len(Siblings) = 2
    /\ \E x \in Range(Siblings) : x.strand = Strand.MINUS
    /\ \E p \in Res.start .. (Res.end - 1) :
          \A b \in AllBlocks(Siblings) : ~(b[1] <= p /\ p < b[2])
    /\ Siblings[2].end < Res.end

\* The positions of the siblings flagged primary.
Flagged == {i \in DOMAIN Siblings : Siblings[i].is_primary_feature}

\* Coding length (0 for a feature) and own length of a sub-feature.
CodingLength(x) ==
    IF x.kind = "TranscriptInterval"
    THEN Cardinality(positions(x.cds_blocks)) ELSE 0

OwnLength(x) == Cardinality(positions(x.blocks))

\* x is ranked strictly above y by (coding length, own length).
RankedAbove(x, y) ==
    \/ CodingLength(x) > CodingLength(y)
    \/ (CodingLength(x) = CodingLength(y) /\ OwnLength(x) > OwnLength(y))

\* C14: over a non-empty sibling list, the one sibling flagged primary is
\* selected whatever the lengths; with none flagged, the selected sibling
\* has the largest coding length, ties broken by the largest own length,
\* remaining ties by the earliest position in the list.
C14_PrimaryIsFlaggedOrLongest ==
    (GroupCall /\ Ok) =>
        /\ Cardinality(Flagged) = 1 =>
              \A i \in Flagged : Res.primary = Siblings[i]
        /\ Flagged = {} =>
              \E k \in DOMAIN Siblings :
                  /\ Res.primary = Siblings[k]
                  /\ \A j \in DOMAIN Siblings :
                        /\ ~RankedAbove(Siblings[j], Siblings[k])
                        /\ j < k => RankedAbove(Siblings[k], Siblings[j])

\* No sibling is flagged, both have the same coding length, and the second,
\* longer one is selected.
C14_Witness ==
    /\ GroupCall /\ Ok
    /\ Flagged = {}
    /\ Len(Siblings) = 2
    /\ CodingLength(Siblings[1]) = CodingLength(Siblings[2])
    /\ CodingLength(Siblings[1]) > 0
    /\ OwnLength(Siblings[1]) < OwnLength(Siblings[2])
    /\ Res.primary = Siblings[2]

\* C15: constructing a GeneInterval or FeatureIntervalCollection fails with
\* InvalidAnnotationError when the sub-feature list is empty and with
\* ValidationException whenever two or more sub-features are flagged
\* primary; no group object results in either case.
C15_EmptyOrAmbiguousGroupIsRejected ==
    GroupCall =>
        /\ Siblings = <<>> =>
              /\ result = Raised("InvalidAnnotationError")
              /\ coll = NoObject
        /\ Cardinality(Flagged) >= 2 =>
              /\ result = Raised("ValidationException")
              /\ coll = NoObject

\* The lists that hold the same children as list, in any order.
SameChildren(list) ==
    {l \in ListsOf(Range(list)) : Range(l) = Range(list)}

Reversed(seq) == [i \in DOMAIN seq |-> seq[Len(seq) + 1 - i]]

\* The same qualifiers with the values of every key listed backwards.
ReversedValues(qualifiers) ==
    IF qualifiers = None THEN None
    ELSE Some([k \in DOMAIN Val(qualifiers) |-> Reversed(Val(qualifiers)[k])])

\* The group constructed again, without guid, from another list of
\* sub-features and other qualifiers but the fields of the last call.
ConstructedAgain(list, qualifiers) ==
    IF Called("GeneInterval")
    THEN GeneInterval_init(list, None, call.fields.gene_id,
             call.fields.gene_symbol, call.fields.gene_type,
             call.fields.locus_tag, qualifiers, call.fields.sequence_name)
    ELSE FeatureIntervalCollection_init(list,
             call.fields.feature_collection_name,
             call.fields.feature_collection_id, call.fields.locus_tag,
             call.fields.sequence_name, None, qualifiers)

\* C16: a group constructed without guid has the guid of every construction
\* from the same fields, equal qualifiers and the same children listed in
\* any order; a supplied guid is the group's guid.
C16_GroupGuidIsOrderIndependentOrSupplied ==
    (GroupCall /\ Ok) =>
        /\ call.guid # None => Res.guid = Val(call.guid)
        /\ call.guid = None =>
              \A list \in SameChildren(Siblings) :
                  \A q \in {call.fields.qualifiers,
                            ReversedValues(call.fields.qualifiers)} :
                      ConstructedAgain(list, q).status = "ok" =>
                          ConstructedAgain(list, q).value[1].guid = Res.guid

\* A group of two different sub-features and a qualifier with two values is
\* constructed without guid, and can be constructed from the reversed list.
C16_Witness ==
    /\ GroupCall /\ Ok
    /\ call.guid = None
    /\ Len(Siblings) = 2
    /\ Siblings[1].guid # Siblings[2].guid
    /\ ReversedValues(call.fields.qualifiers) # call.fields.qualifiers
    /\ ConstructedAgain(Reversed(Siblings), call.fields.qualifiers).status = "ok"
    /\ Res.guid[1] = "digest"

\* A guid computed by digest_object, as opposed to a supplied one.
IsDerivedGuid(guid) == guid[1] = "digest"

\* A feature group without the guids of its sub-features and its own guid.
WithoutGuids(c) ==
    [c EXCEPT !.subfeatures = [i \in DOMAIN @ |-> [@[i] EXCEPT !.guid = <<>>]],
              !.primary = [@ EXCEPT !.guid = <<>>],
              !.guid = <<>>]

\* Two feature groups constructed from the same arguments but for the guid
\* of one sub-feature.
SameButOneSubfeatureGuid(c, d) ==
    /\ WithoutGuids(c) = WithoutGuids(d)
    /\ Cardinality({i \in DOMAIN c.subfeatures :
                       c.subfeatures[i].guid # d.subfeatures[i].guid}) = 1
    /\ \/ c.guid = d.guid
       \/ IsDerivedGuid(c.guid) /\ IsDerivedGuid(d.guid)

\* The children of a collection, genes first.
Kids(c) == c.genes \o c.feature_collections

\* The positions at which the children of two collections differ.
ChangedKids(a, b) == {i \in DOMAIN Kids(a) : Kids(a)[i] # Kids(b)[i]}

\* Two collections constructed from the same arguments but for the guid of
\* one sub-feature of one child.
DifferOnlyInOneSubfeatureGuid(a, b) ==
    /\ IsObject(a) /\ IsObject(b)
    /\ [a EXCEPT !.genes = <<>>, !.feature_collections = <<>>,
                 !.guid = <<>>, !.oid = 0] =
       [b EXCEPT !.genes = <<>>, !.feature_collections = <<>>,
                 !.guid = <<>>, !.oid = 0]
    /\ Len(a.genes) = Len(b.genes)
    /\ Len(a.feature_collections) = Len(b.feature_collections)
    /\ Cardinality(ChangedKids(a, b)) = 1
    /\ \A i \in ChangedKids(a, b) :
          SameButOneSubfeatureGuid(Kids(a)[i], Kids(b)[i])

\* The arguments of the digest that gave a collection its guid, and the
\* last of them, the set of guids.
DigestInput(c) == Tail(c.guid)

DigestGuids(c) == c.guid[Len(c.guid)]

\* The guids of the sub-features of the children of a collection.
SubfeatureGuids(c) ==
    UNION {{x.guid : x \in Range(k.subfeatures)} : k \in DirectChildren(c)}

Covered(feature) == positions(feature.blocks)

\* The blocks are sorted and any two of them are disjoint.
SortedDisjoint(blocks) ==
    /\ \A i \in DOMAIN blocks : blocks[i][1] <= blocks[i][2]
    /\ \A i, j \in DOMAIN blocks : i < j => blocks[i][2] <= blocks[j][1]

\* The positions covered by an exon block of a transcript of the gene.
ExonPositions(gene) ==
    UNION {positions(tx.blocks) : tx \in Range(gene.subfeatures)}

\* C18: the feature get_merged_transcript returns has sorted, pairwise
\* non-overlapping blocks that cover exactly the positions covered by an
\* exon block of a transcript of the gene (one block [2, 18) for tx1 [2, 18)
\* and tx2 [2, 6), [7, 10), [12, 15)); it is on the gene's forward strand
\* and carries the gene's guid.
C18_MergedTranscriptCoversExons ==
    (Called("get_merged_transcript") /\ Ok) =>
        /\ Res.kind = "FeatureInterval"
        /\ SortedDisjoint(Res.blocks)
        /\ Covered(Res) = ExonPositions(pre)
        /\ pre.subfeatures = <<tx1, tx2>> => Res.blocks = <<<<2, 18>>>>
        /\ Res.strand = Strand.PLUS /\ Res.strand = pre.strand
        /\ Res.guid = pre.guid

\* The gene of the tests, tx1 and tx2, merges into the one block [2, 18).
C18_Witness ==
    /\ Called("get_merged_transcript") /\ Ok
    /\ pre.subfeatures = <<tx1, tx2>>
    /\ Res.blocks = <<<<2, 18>>>>
    /\ Res.guid = pre.guid

\* The transcripts of a gene that are coding.
CodingTranscripts(gene) ==
    {tx \in Range(gene.subfeatures) : tx.is_coding}

\* The positions covered by a coding block of a coding transcript.
CodingPositions(gene) ==
    UNION {positions(tx.cds_blocks) : tx \in CodingTranscripts(gene)}

\* C19: get_merged_cds fails with NoncodingTranscriptError exactly when the
\* gene has no coding transcript; a returned feature covers exactly the
\* positions of the coding blocks of the coding transcripts, so non-coding
\* transcripts contribute nothing.
C19_MergedCdsCoversCodingBlocksOnly ==
    Called("get_merged_cds") =>
        /\ result = Raised("NoncodingTranscriptError")
              <=> CodingTranscripts(pre) = {}
        /\ result.error = "NoncodingTranscriptError"
              <=> CodingTranscripts(pre) = {}
        /\ Ok => /\ SortedDisjoint(Res.blocks)
                 /\ Covered(Res) = CodingPositions(pre)

\* A gene with a coding and a longer non-coding transcript: the merged CDS
\* leaves out positions only the non-coding transcript covers.
C19_Witness ==
    /\ Called("get_merged_cds") /\ Ok
    /\ \E tx \in Range(pre.subfeatures) :
          ~tx.is_coding /\ ~(positions(tx.blocks) \subseteq Covered(Res))
    /\ CodingTranscripts(pre) # {}
    /\ Covered(Res) # {}

\* C20: export_qualifiers leaves the stored qualifiers of the group as they
\* were, the same keys and the same values under every key, also when a
\* stored key is the key under which an identifying field is exported.
C20_ExportLeavesStoredQualifiers ==
    Called("export_qualifiers") => coll.qualifiers = pre.qualifiers


---------------------------------------------------------------------------
\* C21: to_gff on an entity without a sequence name (a GeneInterval, a
\* FeatureIntervalCollection, or an AnnotationCollection whose own
\* sequence_name is absent, whatever its children) raises
\* GFF3MissingSequenceNameError and has yielded no row.
C21_ToGffWithoutSequenceNameFails ==
    (Called("to_gff") /\ ~truthy_str(pre.sequence_name)) =>
        /\ result.status = "raised"
        /\ result.error = "GFF3MissingSequenceNameError"
        /\ result.value = <<<<>>>>


---------------------------------------------------------------------------
\* What query_by_guids returns for the ids, enumerated in this order, when
\* it runs alone on the collection as constructed.
RunAlone(order) == query_by_guids(after_query_by_guids(pre), order, 0).value[1]

SameCollectionButIdentity(a, b) == [a EXCEPT !.oid = 0] = [b EXCEPT !.oid = 0]

\* C22: in every interleaving of concurrent query_by_guids calls on one
\* collection, every call returns the children it returns when run alone,
\* and _guid_cached is never true while _guid_map is not the built map:
\* no thread is at the loop over a map that lacks a child.
C22_ConcurrentGuidQueriesReturnAsAlone ==
    /\ \A t \in Threads :
          call[t].pc = "done" =>
              /\ result[t].status = "ok"
              /\ SameCollectionButIdentity(result[t].value[1],
                                           RunAlone(call[t].order))
    /\ coll.guid_cached = TRUE => coll.guid_map = guid_dict(iter_children(pre))
    /\ \A t \in Threads :
          call[t].pc = "lookup" => coll.guid_map = guid_dict(iter_children(pre))

\* Two calls overlapped: both threads read _guid_cached as False, so both
\* built the map, and both returned a child.
C22_Witness ==
    /\ \A t \in Threads : call[t].pc = "done" /\ call[t].cached = Some(FALSE)
    /\ \E t \in Threads, u \in Threads :
          /\ t # u
          /\ result[t].value[1].genes # <<>>
          /\ result[u].value[1].feature_collections # <<>>


---------------------------------------------------------------------------
\* The children of c lie within the bounds of c.
ChildrenWithinBounds(c) ==
    \A x \in DirectChildren(c) : start_of(c) <= x.start /\ x.end <= end_of(c)

FlaggedWithin(c) == c.completely_within = Some(TRUE)

\* C23: every collection reached from a root constructed without a
\* completely_within flag by query_by_position, query_by_guids and
\* query_by_feature_identifier calls, if its completely_within flag is
\* true, has every child within its bounds.
C23_FlaggedCollectionHoldsChildrenWithinBounds ==
    /\ FlaggedWithin(coll) => ChildrenWithinBounds(coll)
    /\ FlaggedWithin(pre) => ChildrenWithinBounds(pre)
    /\ (Ok /\ FlaggedWithin(Res)) => ChildrenWithinBounds(Res)

\* A guid or identifier query on the flagged result of a position query
\* that dropped a child returned a child, the flag echoed forward.
C23_Witness ==
    /\ Called("query_by_guids") \/ Called("query_by_feature_identifier")
    /\ call.recv = "result"
    /\ Ok
    /\ FlaggedWithin(pre)
    /\ FlaggedWithin(Res)
    /\ DirectChildren(Res) # {}
    /\ has_location(Res) /\ start_of(Res) > 0


---------------------------------------------------------------------------
\* C24: on every successfully constructed GeneInterval, whichever optional
\* fields were omitted at construction, get_merged_transcript returns a
\* merged feature without raising, and get_merged_cds raises nothing other
\* than NoncodingTranscriptError.
C24_MergedFeaturesNeverFailOnOmittedFields ==
    /\ Called("get_merged_transcript") => Ok
    /\ Called("get_merged_cds") =>
           (Ok \/ result.error = "NoncodingTranscriptError")

=============================================================================
